---- MODULE Spec2Model ----
(***************************************************************************)
(* nanocode-ts: the agent loop (agent.ts: runAgentLoop, main) and the tool *)
(* dispatcher (tools.ts: executeTool and the tool handlers).               *)
(*                                                                         *)
(* JavaScript strings are TLA+ strings; a JavaScript value that may be of  *)
(* several types is a record [t |-> <type>, v |-> <text>].                 *)
(***************************************************************************)
EXTENDS Integers, Sequences, FiniteSets, TLC

(***************************************************************************)
(* Bounds of the model.                                                    *)
(***************************************************************************)
\* user messages accepted in one session
MaxTurns == 2
\* tool-call slots the free scripted model may emit in one session
MaxSpend == 2

(***************************************************************************)
(* Program constants.                                                      *)
(***************************************************************************)
MAX_AGENT_LOOPS == 10
SYSTEM_PROMPT == "You are cocky coding agent."

(***************************************************************************)
(* String helpers (String.prototype methods used by the code).             *)
(***************************************************************************)
StartsWith(s, p) == Len(s) >= Len(p) /\ SubSeq(s, 1, Len(p)) = p

\* 1-based index of the first occurrence of pat in s at or after from; 0 if none
RECURSIVE IndexOf(_, _, _)
IndexOf(s, pat, from) ==
  IF from + Len(pat) - 1 > Len(s) THEN 0
  ELSE IF SubSeq(s, from, from + Len(pat) - 1) = pat THEN from
  ELSE IndexOf(s, pat, from + 1)

Includes(s, pat) == IndexOf(s, pat, 1) # 0

IsSpace(c) == c \in {" ", "\n", "\t", "\r"}

RECURSIVE TrimStart(_)
TrimStart(s) ==
  IF Len(s) > 0 /\ IsSpace(SubSeq(s, 1, 1)) THEN TrimStart(SubSeq(s, 2, Len(s))) ELSE s

RECURSIVE TrimEnd(_)
TrimEnd(s) ==
  IF Len(s) > 0 /\ IsSpace(SubSeq(s, Len(s), Len(s)))
  THEN TrimEnd(SubSeq(s, 1, Len(s) - 1)) ELSE s

Trim(s) == TrimEnd(TrimStart(s))

\* the answers and commands the code lower-cases are ASCII; only the letters
\* that occur in the inputs are mapped
LowerChar(c) == IF c = "Y" THEN "y" ELSE IF c = "N" THEN "n" ELSE c

RECURSIVE ToLowerCase(_)
ToLowerCase(s) ==
  IF Len(s) = 0 THEN ""
  ELSE LowerChar(SubSeq(s, 1, 1)) \o ToLowerCase(SubSeq(s, 2, Len(s)))

\* s.split(sep) for a non-empty separator
RECURSIVE SplitNE(_, _)
SplitNE(s, sep) ==
  LET i == IndexOf(s, sep, 1) IN
  IF i = 0 THEN <<s>>
  ELSE <<SubSeq(s, 1, i - 1)>> \o SplitNE(SubSeq(s, i + Len(sep), Len(s)), sep)

\* s.split(""): one element per character, none for the empty string
Split(s, sep) ==
  IF sep = "" THEN [k \in 1..Len(s) |-> SubSeq(s, k, k)] ELSE SplitNE(s, sep)

RECURSIVE Join(_, _)
Join(parts, sep) ==
  IF Len(parts) = 0 THEN ""
  ELSE IF Len(parts) = 1 THEN parts[1]
  ELSE parts[1] \o sep \o Join(Tail(parts), sep)

RECURSIVE PadStart(_, _)
PadStart(s, width) == IF Len(s) >= width THEN s ELSE PadStart(" " \o s, width)

(***************************************************************************)
(* JavaScript values and the texts the model emits as tool arguments.      *)
(***************************************************************************)
U == "<undefined>"
Str(s) == [t |-> "string", v |-> s]
Obj(s) == [t |-> "object", v |-> s]
Bool(s) == [t |-> "boolean", v |-> s]
Undef == [t |-> "undefined", v |-> U]

FilePath == "f"
GoodArgsText ==
  "{\"path\":\"f\",\"content\":\"new\",\"old\":\"old\",\"new\":\"new\",\"cmd\":\"rm f\",\"pattern\":\"f\"}"
NoFieldsText == "{}"
BadJSONText == "{oops"
AllArgTexts == {GoodArgsText, NoFieldsText, "null", "5", "\"x\"", "[]", BadJSONText}

\* a parsed argument value: its JSON type and the properties the handlers
\* destructure (U when the property is absent, 0 / FALSE for the absent
\* number and boolean properties, which the handlers default or test for
\* truthiness)
NoProps(type) ==
  [t |-> type, path |-> U, content |-> U, old |-> U, new |-> U, cmd |-> U,
   pattern |-> U, include |-> U, offset |-> 0, limit |-> 0, all |-> FALSE]

\* JSON.parse(text): ok = FALSE when it throws a SyntaxError
JSONParse(text) ==
  CASE text = GoodArgsText ->
         [ok |-> TRUE, err |-> "",
          val |-> [NoProps("object") EXCEPT !.path = "f", !.content = "new",
                     !.old = "old", !.new = "new", !.cmd = "rm f", !.pattern = "f"]]
    [] text = NoFieldsText -> [ok |-> TRUE, err |-> "", val |-> NoProps("object")]
    [] text = "null" -> [ok |-> TRUE, err |-> "", val |-> NoProps("null")]
    [] text = "5" -> [ok |-> TRUE, err |-> "", val |-> NoProps("number")]
    [] text = "\"x\"" -> [ok |-> TRUE, err |-> "", val |-> NoProps("string")]
    [] text = "[]" -> [ok |-> TRUE, err |-> "", val |-> NoProps("array")]
    [] OTHER ->
         [ok |-> FALSE, val |-> NoProps("undefined"),
          err |-> "Expected property name or '}' in JSON at position 1"]

(***************************************************************************)
(* The file system seen by the tools: one path, present or not.            *)
(***************************************************************************)
NoFile == [exists |-> FALSE, text |-> ""]
File(text) == [exists |-> TRUE, text |-> text]

\* what a handler call produces: a value, or an exception, and the disk
Ret(v, d) == [threw |-> FALSE, val |-> v, err |-> "", disk |-> d]
Throw(e, d) == [threw |-> TRUE, val |-> Undef, err |-> e, disk |-> d]

DestructureError == "TypeError: Cannot destructure property of null"
PathTypeError == "TypeError [ERR_INVALID_ARG_TYPE]: The \"path\" argument must be of type string"
ENOENT(path) == "Error: ENOENT: no such file or directory, open '" \o path \o "'"

\* readFile(path, 'utf-8'): "" when it throws (see ReadFileError)
ReadFileError(path, d) ==
  IF path = U THEN PathTypeError
  ELSE IF path # FilePath \/ ~d.exists THEN ENOENT(path)
  ELSE ""

(***************************************************************************)
(* Tool handlers (tools.ts, toolHandlers).                                 *)
(***************************************************************************)
\* lines.slice(offset, end).map(... offset + i + 1 ...), for 0 <= offset
RECURSIVE NumberedFrom(_, _, _)
NumberedFrom(lines, k, end) ==
  IF k >= end \/ k >= Len(lines) THEN <<>>
  ELSE <<PadStart(ToString(k + 1), 4) \o "| " \o lines[k + 1]>>
         \o NumberedFrom(lines, k + 1, end)

read(args, d) ==
  IF args.t = "null" THEN Throw(DestructureError, d)
  ELSE IF ReadFileError(args.path, d) # "" THEN Throw(ReadFileError(args.path, d), d)
  ELSE LET lines == Split(d.text, "\n")
           end == IF args.limit # 0 THEN args.offset + args.limit ELSE Len(lines)
       IN Ret(Str(Join(NumberedFrom(lines, args.offset, end), "\n")), d)

\* writeFile(path, content, 'utf-8')
write(args, d) ==
  IF args.t = "null" THEN Throw(DestructureError, d)
  ELSE IF args.path = U THEN Throw(PathTypeError, d)
  ELSE IF args.content = U
       THEN Throw("TypeError [ERR_INVALID_ARG_TYPE]: The \"data\" argument must be of type string", d)
  ELSE IF args.path # FilePath THEN Ret(Str("ok"), d)
  ELSE Ret(Str("ok"), File(args.content))

\* the replacement text of String.prototype.replace / replaceAll with a string
\* pattern: the dollar patterns (dollar, ampersand, backtick, quote) are
\* substituted, everything else is literal
\* the character U+0060, which a TLA+ string cannot hold, is written "^"
BackTick == "^"

RECURSIVE GetSubstitution(_, _, _, _)
GetSubstitution(repl, matched, before, after) ==
  IF Len(repl) = 0 THEN ""
  ELSE IF Len(repl) >= 2 /\ SubSeq(repl, 1, 1) = "$"
          /\ SubSeq(repl, 2, 2) \in {"$", "&", BackTick, "'"}
       THEN (CASE SubSeq(repl, 2, 2) = "$" -> "$"
               [] SubSeq(repl, 2, 2) = "&" -> matched
               [] SubSeq(repl, 2, 2) = BackTick -> before
               [] OTHER -> after)
            \o GetSubstitution(SubSeq(repl, 3, Len(repl)), matched, before, after)
       ELSE SubSeq(repl, 1, 1)
            \o GetSubstitution(SubSeq(repl, 2, Len(repl)), matched, before, after)

\* text.replace(pat, repl): the first occurrence only
Replace(text, pat, repl) ==
  LET i == IndexOf(text, pat, 1) IN
  IF i = 0 THEN text
  ELSE SubSeq(text, 1, i - 1)
       \o GetSubstitution(repl, pat, SubSeq(text, 1, i - 1),
                          SubSeq(text, i + Len(pat), Len(text)))
       \o SubSeq(text, i + Len(pat), Len(text))

\* text.replaceAll(pat, repl): every match, scanning left to right and
\* advancing by max(1, pat.length)
RECURSIVE ReplaceAllFrom(_, _, _, _)
ReplaceAllFrom(text, pat, repl, from) ==
  LET i == IndexOf(text, pat, from) IN
  IF i = 0 THEN SubSeq(text, from, Len(text))
  ELSE SubSeq(text, from, i - 1)
       \o GetSubstitution(repl, pat, SubSeq(text, 1, i - 1),
                          SubSeq(text, i + Len(pat), Len(text)))
       \o (IF pat # "" THEN ReplaceAllFrom(text, pat, repl, i + Len(pat))
           ELSE IF i > Len(text) THEN ""
           ELSE SubSeq(text, i, i) \o ReplaceAllFrom(text, pat, repl, i + 1))

\* replace where replaceAll was meant
ReplaceAllFirstOnly(text, pat, repl) == Replace(text, pat, repl)

ReplaceAll(text, pat, repl) == ReplaceAllFrom(text, pat, repl, 1)

\* an undefined argument is converted to the string "undefined" by includes,
\* replace and replaceAll; split(undefined) does not split
ToStr(x) == IF x = U THEN "undefined" ELSE x

edit(args, d) ==
  IF args.t = "null" THEN Throw(DestructureError, d)
  ELSE IF ReadFileError(args.path, d) # "" THEN Throw(ReadFileError(args.path, d), d)
  ELSE LET text == d.text
           count == IF args.old = U THEN 0 ELSE Len(Split(text, args.old)) - 1
           updated == IF args.all THEN ReplaceAll(text, ToStr(args.old), ToStr(args.new))
                      ELSE Replace(text, ToStr(args.old), ToStr(args.new))
       IN IF ~Includes(text, ToStr(args.old)) THEN Ret(Str("error: old string not found"), d)
          ELSE IF ~args.all /\ count > 1
               THEN Ret(Str("error: old string appears " \o ToString(count)
                            \o " times, must be unique (or use all=true)"), d)
          ELSE Ret(Str("ok"), File(updated))

\* what the shell did with a command: the environment's choice
ExecOutcomes ==
  {[kind |-> "exit0", stdout |-> "", stderr |-> ""],
   [kind |-> "exit0", stdout |-> " out\n", stderr |-> ""],
   [kind |-> "nonzero", stdout |-> "", stderr |-> "rm: cannot remove\n"],
   [kind |-> "nonzero", stdout |-> "", stderr |-> ""],
   [kind |-> "killed", stdout |-> "", stderr |-> ""]}

\* a || b for strings: the first non-empty one
OrElse(a, b) == IF a # "" THEN a ELSE b

\* a handler without the test of e.killed
bashWithoutKilledTest(args, d, env) ==
  IF args.t = "null" THEN Throw(DestructureError, d)
  ELSE IF args.cmd = U
       THEN Ret(Str("The \"command\" argument must be of type string. Received undefined"), d)
  ELSE IF env.kind = "exit0"
       THEN Ret(Str(OrElse(Trim(env.stdout \o env.stderr), "(empty)")),
                IF args.cmd = "rm f" THEN NoFile ELSE d)
  ELSE Ret(Str(OrElse(env.stdout,
                 OrElse(env.stderr, "Command failed: " \o args.cmd \o "\n" \o env.stderr))), d)

bash(args, d, env) ==
  IF args.t = "null" THEN Throw(DestructureError, d)
  ELSE IF args.cmd = U
       THEN Ret(Str("The \"command\" argument must be of type string. Received undefined"), d)
  ELSE IF env.kind = "exit0"
       THEN Ret(Str(OrElse(Trim(env.stdout \o env.stderr), "(empty)")),
                IF args.cmd = "rm f" THEN NoFile ELSE d)
  ELSE IF env.kind = "killed" THEN Ret(Str("(timed out after 30s)"), d)
  ELSE Ret(Str(OrElse(env.stdout,
                 OrElse(env.stderr, "Command failed: " \o args.cmd \o "\n" \o env.stderr))), d)

\* whether the glob pattern matches the (only) file name
GlobMatches(pattern, file) == pattern \in {file, "*", "**/*"}

globToArray(pattern, cwd, d) ==
  IF pattern = U
  THEN [threw |-> TRUE, list |-> <<>>,
        err |-> "TypeError [ERR_INVALID_ARG_TYPE]: The \"pattern\" argument must be of type string"]
  ELSE [threw |-> FALSE, err |-> "",
        list |-> IF cwd = "." /\ d.exists /\ GlobMatches(pattern, FilePath)
                    /\ ~Includes(FilePath, "node_modules")
                 THEN <<FilePath>> ELSE <<>>]

\* parameter default: the value when absent
Default(x, dflt) == IF x = U THEN dflt ELSE x

glob(args, d) ==
  IF args.t = "null" THEN Throw(DestructureError, d)
  ELSE LET m == globToArray(args.pattern, Default(args.path, "."), d) IN
       IF m.threw THEN Throw(m.err, d)
       ELSE Ret(Str(IF Len(m.list) # 0 THEN Join(m.list, "\n") ELSE "(no matches)"), d)

\* regex.test(line) for a pattern without metacharacters; new RegExp(undefined)
\* matches every line
RegexTest(pattern, line) == pattern = U \/ Includes(line, pattern)

RECURSIVE GrepLines(_, _, _, _)
GrepLines(file, lines, i, pattern) ==
  IF i > Len(lines) THEN <<>>
  ELSE (IF RegexTest(pattern, lines[i])
        THEN <<file \o ":" \o ToString(i) \o ": " \o lines[i]>> ELSE <<>>)
       \o GrepLines(file, lines, i + 1, pattern)

grep(args, d) ==
  IF args.t = "null" THEN Throw(DestructureError, d)
  ELSE LET files == globToArray(Default(args.include, "**/*"), Default(args.path, "."), d)
           results == IF Len(files.list) = 0 THEN <<>>
                      ELSE GrepLines(files.list[1], Split(d.text, "\n"), 1, args.pattern)
       IN IF files.threw THEN Throw(files.err, d)
          ELSE Ret(Str(IF Len(results) # 0 THEN Join(results, "\n") ELSE "(no matches)"), d)

(***************************************************************************)
(* Dispatch (tools.ts, executeTool).                                       *)
(***************************************************************************)
RegisteredTools == {"read", "write", "edit", "bash", "glob", "grep"}
\* properties every object literal inherits from Object.prototype
InheritedFunctions == {"constructor", "toString", "hasOwnProperty", "valueOf", "isPrototypeOf"}
InheritedNames == InheritedFunctions \cup {"__proto__"}
UnknownNames == {"nosuch", "Read", ""}
AllToolNames == RegisteredTools \cup InheritedNames \cup UnknownNames

\* toolHandlers[name]: an own handler, an inherited function, the prototype
\* object itself, or undefined
toolHandlers(name) ==
  IF name \in RegisteredTools THEN "own"
  ELSE IF name \in InheritedFunctions THEN "inherited"
  ELSE IF name = "__proto__" THEN "object"
  ELSE "undefined"

\* handler(args) for a function found on Object.prototype, called without a
\* receiver
CallInherited(name, args, d) ==
  CASE name = "constructor" -> Ret(Obj("[object Object]"), d)
    [] name = "toString" -> Ret(Str("[object Undefined]"), d)
    [] name = "isPrototypeOf" /\ args.t \notin {"object", "array"} -> Ret(Bool("false"), d)
    [] OTHER -> Throw("TypeError: Cannot convert undefined or null to object", d)

CallHandler(name, args, d, env) ==
  CASE name = "read" -> read(args, d)
    [] name = "write" -> write(args, d)
    [] name = "edit" -> edit(args, d)
    [] name = "bash" -> bash(args, d, env)
    [] name = "glob" -> glob(args, d)
    [] name = "grep" -> grep(args, d)
    [] toolHandlers(name) = "inherited" -> CallInherited(name, args, d)
    [] OTHER -> Throw("TypeError: handler is not a function", d)

\* handled: whether a function was called (a side effect may have happened)
executeTool(name, args, d, env) ==
  IF toolHandlers(name) = "undefined"
  THEN [threw |-> FALSE, val |-> Str("error: unknown tool \"" \o name \o "\""),
        disk |-> d, handled |-> FALSE]
  ELSE LET r == CallHandler(name, args, d, env) IN
       [threw |-> FALSE,
        val |-> IF r.threw THEN Str("error: " \o r.err) ELSE r.val,
        disk |-> r.disk,
        handled |-> toolHandlers(name) # "object"]

(***************************************************************************)
(* The agent (agent.ts).                                                   *)
(***************************************************************************)
\* the tools that need the operator's confirmation
dangerousTools == {"write", "edit", "bash"}

NoCalls == [present |-> FALSE, list |-> <<>>]
Calls(list) == [present |-> TRUE, list |-> list]

\* Message (types.ts); U stands for an absent tool_call_id
SystemMsg(text) == [role |-> "system", content |-> text, tool_calls |-> NoCalls, tool_call_id |-> U]
UserMsg(text) == [role |-> "user", content |-> text, tool_calls |-> NoCalls, tool_call_id |-> U]
AssistantMsg(text, tc) == [role |-> "assistant", content |-> text, tool_calls |-> tc, tool_call_id |-> U]
ToolMsg(id, text) == [role |-> "tool", content |-> text, tool_calls |-> NoCalls, tool_call_id |-> id]

\* a reset that leaves the history empty
initMessagesEmpty == <<>>

initMessages == IF SYSTEM_PROMPT # "" THEN <<SystemMsg(SYSTEM_PROMPT)>> ELSE <<>>

\* what the operator types at the main prompt and at the confirmation prompt
Inputs == {"", "  ", "/new", " /clear", "/exit", "/quit ", "hello", " hello\n"}
Answers == {"", "n", "y", "Y", "yes", " y"}

\* the replies of the scripted model
CallIds == {"call_1", "call_2"}
ScriptNames == {"read", "write", "constructor"}
ScriptArgs == {GoodArgsText, "null", BadJSONText}
FinishReasons == {"stop", "tool_calls"}
ScriptCalls == [id : CallIds, name : ScriptNames, arguments : ScriptArgs]
\* the tool calls of one reply carry pairwise distinct ids, here in the order
\* call_1, call_2
ScriptLists ==
  {<<>>} \cup {<<c>> : c \in ScriptCalls}
         \cup UNION {{<<c1, c2>> : c2 \in {c \in ScriptCalls : c.id = "call_2"}} :
                       c1 \in {c \in ScriptCalls : c.id = "call_1"}}
Weight(list) == IF Len(list) = 0 THEN 1 ELSE Len(list)
FreeReplies(left) ==
  [finish_reason : FinishReasons, content : {"reply"},
   tool_calls : {NoCalls} \cup {Calls(l) : l \in {x \in ScriptLists : Weight(x) <= left}}]
\* a model that requests a tool in every reply
RunawayReplies ==
  {[finish_reason |-> "tool_calls", content |-> "reply",
    tool_calls |-> Calls(<<[id |-> "call_1", name |-> "read", arguments |-> GoodArgsText]>>)]}
\* what the runaway model may ask for in the last reply the cap lets through
LastReplies ==
  {[finish_reason |-> "tool_calls", content |-> "reply", tool_calls |-> Calls(l)] :
     l \in {<<[id |-> "call_1", name |-> "read", arguments |-> GoodArgsText]>>,
            <<[id |-> "call_1", name |-> "write", arguments |-> GoodArgsText]>>,
            <<[id |-> "call_1", name |-> "read", arguments |-> GoodArgsText],
              [id |-> "call_2", name |-> "write", arguments |-> GoodArgsText]>>}}
Spent(reply) == IF reply.tool_calls.present THEN Weight(reply.tool_calls.list) ELSE 0

NoEvent ==
  [kind |-> "none", id |-> U, name |-> U, prompted |-> FALSE, answer |-> U, handled |-> FALSE]

VARIABLES
  messages,     \* the conversation history
  pc,           \* where the program is: "prompt", "loop", "llm", "tool", "confirm", "exited", "exec"
  userMessage,  \* runAgentLoop's parameter
  steps,        \* runAgentLoop's counter
  pending,      \* message.tool_calls of the reply being processed
  idx,          \* position of the for loop in pending
  disk,         \* the file the tools work on
  sent,         \* the messages of the request in flight
  outcome,      \* what the last turn printed when it ended
  ev,           \* what happened to the tool call processed last
  invoked,      \* calls of callLLM in the current turn
  handlerCalls, \* handler invocations so far
  afterReset,   \* no reply has arrived since the last reset
  denied,       \* position and id of the last denial in the history
  script,       \* the scripted model's kind
  spent,        \* tool-call slots the free script has used
  turns,        \* user messages accepted so far
  probe         \* input and result of a direct executeTool call

vars == <<messages, pc, userMessage, steps, pending, idx, disk, sent, outcome, ev,
          invoked, handlerCalls, afterReset, denied, script, spent, turns, probe>>

NoProbe == [name |-> U, args |-> U, done |-> FALSE, threw |-> FALSE, val |-> Undef,
            handled |-> FALSE, before |-> NoFile]
NoDenial == [at |-> 0, id |-> U]

Init ==
  /\ messages = initMessages
  /\ pc = "prompt"
  /\ userMessage = U
  /\ steps = 0
  /\ pending = <<>>
  /\ idx = 0
  /\ disk = File("old")
  /\ sent = <<>>
  /\ outcome = "none"
  /\ ev = NoEvent
  /\ invoked = 0
  /\ handlerCalls = 0
  /\ afterReset = FALSE
  /\ denied = NoDenial
  /\ script \in {"free", "runaway"}
  /\ spent = 0
  /\ turns = 0
  /\ probe = NoProbe

(***************************************************************************)
(* main: one iteration of the input loop.                                  *)
(***************************************************************************)
UserInput(line) ==
  LET input == Trim(line) IN
  /\ pc = "prompt"
  /\ IF input = "" THEN UNCHANGED vars
     ELSE IF input \in {"/quit", "/exit"}
     THEN /\ pc' = "exited"
          /\ UNCHANGED <<messages, userMessage, steps, pending, idx, disk, sent, outcome, ev,
                         invoked, handlerCalls, afterReset, denied, script, spent, turns, probe>>
     ELSE IF input \in {"/clear", "/new"}
     THEN /\ messages' = initMessages
          /\ afterReset' = TRUE
          /\ denied' = NoDenial
          /\ outcome' = "cleared"
          /\ UNCHANGED <<pc, userMessage, steps, pending, idx, disk, sent, ev, invoked,
                         handlerCalls, script, spent, turns, probe>>
     ELSE \* runAgentLoop(input), up to the top of its loop
          /\ turns < MaxTurns
          /\ turns' = turns + 1
          /\ userMessage' = input
          /\ messages' = Append(messages, UserMsg(input))
          /\ steps' = 0
          /\ invoked' = 0
          /\ outcome' = "none"
          /\ pc' = "loop"
          /\ UNCHANGED <<pending, idx, disk, sent, ev, handlerCalls, afterReset, denied,
                         script, spent, probe>>

(***************************************************************************)
(* runAgentLoop.                                                           *)
(***************************************************************************)
\* the limit test off by one
LimitReachedEarly(n) == n >= MAX_AGENT_LOOPS

\* steps += 1; if (steps > MAX_AGENT_LOOPS) { report; break }
LimitReached(n) == n > MAX_AGENT_LOOPS

\* a limit test placed before the increment of steps
SafetyStopBeforeIncrement ==
  /\ pc = "loop"
  /\ LimitReached(steps)
  /\ steps' = steps + 1
  /\ outcome' = "safety"
  /\ pc' = "prompt"
  /\ UNCHANGED <<messages, userMessage, pending, idx, disk, sent, ev, invoked, handlerCalls,
                 afterReset, denied, script, spent, turns, probe>>

SafetyStop ==
  /\ pc = "loop"
  /\ LimitReached(steps + 1)
  /\ steps' = steps + 1
  /\ outcome' = "safety"
  /\ pc' = "prompt"
  /\ UNCHANGED <<messages, userMessage, pending, idx, disk, sent, ev, invoked, handlerCalls,
                 afterReset, denied, script, spent, turns, probe>>

\* a request that carries the current turn only: the seed and what follows
\* the last but one message
RequestMessagesCurrentTurn(history) ==
  SubSeq(history, 1, Len(initMessages)) \o SubSeq(history, Len(history), Len(history))

\* the request body of callLLM
RequestMessages(history) == history

Invoke ==
  /\ pc = "loop"
  /\ ~LimitReached(steps + 1)
  /\ steps' = steps + 1
  /\ sent' = RequestMessages(messages)
  /\ invoked' = invoked + 1
  /\ pc' = "llm"
  /\ UNCHANGED <<messages, userMessage, pending, idx, disk, outcome, ev, handlerCalls,
                 afterReset, denied, script, spent, turns, probe>>

\* a catch that leaves the input loop
AfterErrorBreak == "exited"

\* callLLM throws: the exception leaves runAgentLoop and main's catch reports it
AfterError == "prompt"

\* a catch that takes the failed turn's last message back out of the history
LLMErrorRollback ==
  /\ pc = "llm"
  /\ pc' = AfterError
  /\ outcome' = "error"
  /\ sent' = <<>>
  /\ afterReset' = FALSE
  /\ messages' = SubSeq(messages, 1, Len(messages) - 1)
  /\ UNCHANGED <<userMessage, steps, pending, idx, disk, ev, invoked, handlerCalls,
                 denied, script, spent, turns, probe>>

LLMError ==
  /\ pc = "llm"
  /\ pc' = AfterError
  /\ outcome' = "error"
  /\ sent' = <<>>
  /\ afterReset' = FALSE
  /\ UNCHANGED <<messages, userMessage, steps, pending, idx, disk, ev, invoked, handlerCalls,
                 denied, script, spent, turns, probe>>

\* if (finish_reason === 'stop' || !message.tool_calls) break
TurnDone(reply) == reply.finish_reason = "stop" \/ ~reply.tool_calls.present

\* a loop that records the reply only once its tool calls are through
LLMReplyRecordedLate(reply) ==
  /\ pc = "llm"
  /\ messages' = IF TurnDone(reply) \/ Len(reply.tool_calls.list) = 0
                 THEN Append(messages, AssistantMsg(reply.content, reply.tool_calls))
                 ELSE messages
  /\ sent' = <<>>
  /\ afterReset' = FALSE
  /\ spent' = IF script = "free" THEN spent + Spent(reply) ELSE spent
  /\ IF TurnDone(reply)
     THEN /\ pc' = "prompt"
          /\ outcome' = "done"
          /\ UNCHANGED <<pending, idx>>
     ELSE IF Len(reply.tool_calls.list) = 0
     THEN /\ pc' = "loop"
          /\ UNCHANGED <<pending, idx, outcome>>
     ELSE /\ pc' = "tool"
          /\ pending' = reply.tool_calls.list
          /\ idx' = 1
          /\ UNCHANGED outcome
  /\ UNCHANGED <<userMessage, steps, disk, ev, invoked, handlerCalls, denied, script,
                 turns, probe>>

LLMReply(reply) ==
  /\ pc = "llm"
  /\ messages' = Append(messages, AssistantMsg(reply.content, reply.tool_calls))
  /\ sent' = <<>>
  /\ afterReset' = FALSE
  /\ spent' = IF script = "free" THEN spent + Spent(reply) ELSE spent
  /\ IF TurnDone(reply)
     THEN /\ pc' = "prompt"
          /\ outcome' = "done"
          /\ UNCHANGED <<pending, idx>>
     ELSE IF Len(reply.tool_calls.list) = 0
     THEN /\ pc' = "loop"
          /\ UNCHANGED <<pending, idx, outcome>>
     ELSE /\ pc' = "tool"
          /\ pending' = reply.tool_calls.list
          /\ idx' = 1
          /\ UNCHANGED outcome
  /\ UNCHANGED <<userMessage, steps, disk, ev, invoked, handlerCalls, denied, script,
                 turns, probe>>

Reply ==
  \E reply \in (IF script = "free" THEN FreeReplies(MaxSpend - spent)
                ELSE IF steps = MAX_AGENT_LOOPS THEN LastReplies
                ELSE RunawayReplies) :
    LLMReply(reply)

\* printToolCall: Object.values(args) throws a TypeError for null
printToolCallThrows(parsed) == parsed.ok /\ parsed.val.t = "null"

\* printToolResult: result.split throws a TypeError unless result is a string
printToolResultThrows(val) == val.t # "string"

ArgsErrorResult(err) == "error: invalid tool arguments JSON (" \o err \o ")"

\* a prompt that takes everything but n for a yes
userConfirmsToolDefaultYes(answer) == ToLowerCase(answer) # "n"

\* userConfirmsTool, given the operator's answer
userConfirmsTool(answer) == ToLowerCase(answer) = "y"

\* an exception leaves the for loop and runAgentLoop; main's catch reports it
Crash(call, prompted, answer, d, handled) ==
  /\ pc' = "prompt"
  /\ outcome' = "error"
  /\ disk' = d
  /\ handlerCalls' = handlerCalls + (IF handled THEN 1 ELSE 0)
  /\ ev' = [kind |-> "crashed", id |-> call.id, name |-> call.name, prompted |-> prompted,
            answer |-> answer, handled |-> handled]
  /\ pending' = <<>>
  /\ idx' = 0
  /\ UNCHANGED <<messages, userMessage, steps, sent, invoked, afterReset, denied, script,
                 spent, turns, probe>>

\* every tool message keyed by the first call of the reply
ResultIdFirst(call, calls) == calls[1].id

\* the id the tool message carries
ResultId(call, calls) == call.id

\* a push that files the result right behind the assistant message
PushBehindReply(call, kind, prompted, answer, text, d, handled) ==
  /\ messages' = SubSeq(messages, 1, Len(messages) - (idx - 1))
                   \o <<ToolMsg(ResultId(call, pending), text)>>
                   \o SubSeq(messages, Len(messages) - (idx - 1) + 1, Len(messages))
  /\ disk' = d
  /\ handlerCalls' = handlerCalls + (IF handled THEN 1 ELSE 0)
  /\ ev' = [kind |-> kind, id |-> call.id, name |-> call.name, prompted |-> prompted,
            answer |-> answer, handled |-> handled]
  /\ denied' = IF kind = "denied" THEN [at |-> Len(messages) + 1, id |-> call.id] ELSE denied
  /\ IF idx = Len(pending)
     THEN pc' = "loop" /\ pending' = <<>> /\ idx' = 0
     ELSE pc' = "tool" /\ idx' = idx + 1 /\ UNCHANGED pending
  /\ UNCHANGED <<userMessage, steps, sent, outcome, invoked, afterReset, script, spent,
                 turns, probe>>

\* printToolResult(result); messages.push({ role: 'tool', ... }); next call
Push(call, kind, prompted, answer, text, d, handled) ==
  /\ messages' = Append(messages, ToolMsg(ResultId(call, pending), text))
  /\ disk' = d
  /\ handlerCalls' = handlerCalls + (IF handled THEN 1 ELSE 0)
  /\ ev' = [kind |-> kind, id |-> call.id, name |-> call.name, prompted |-> prompted,
            answer |-> answer, handled |-> handled]
  /\ denied' = IF kind = "denied" THEN [at |-> Len(messages) + 1, id |-> call.id] ELSE denied
  /\ IF idx = Len(pending)
     THEN pc' = "loop" /\ pending' = <<>> /\ idx' = 0
     ELSE pc' = "tool" /\ idx' = idx + 1 /\ UNCHANGED pending
  /\ UNCHANGED <<userMessage, steps, sent, outcome, invoked, afterReset, script, spent,
                 turns, probe>>

\* a loop that drops the tool calls of the last reply the cap lets through
DispatchUnlessAtCap(call, args, prompted, answer, env) ==
  LET r == executeTool(call.name, args, disk, env) IN
  IF steps >= MAX_AGENT_LOOPS
  THEN /\ pc' = "loop" /\ pending' = <<>> /\ idx' = 0
       /\ UNCHANGED <<messages, userMessage, steps, disk, sent, outcome, ev, invoked,
                      handlerCalls, afterReset, denied, script, spent, turns, probe>>
  ELSE IF r.threw \/ printToolResultThrows(r.val)
  THEN Crash(call, prompted, answer, r.disk, r.handled)
  ELSE Push(call, "dispatched", prompted, answer, r.val.v, r.disk, r.handled)

\* result = await executeTool(name, args), and what follows it
Dispatch(call, args, prompted, answer, env) ==
  LET r == executeTool(call.name, args, disk, env) IN
  IF r.threw \/ printToolResultThrows(r.val)
  THEN Crash(call, prompted, answer, r.disk, r.handled)
  ELSE Push(call, "dispatched", prompted, answer, r.val.v, r.disk, r.handled)

\* whether the call waits for the operator before it is dispatched
NeedsConfirmation(name) == name \in dangerousTools

\* a loop body that asks for confirmation before it looks at the parse error
ToolStepConfirmFirst ==
  /\ pc = "tool"
  /\ LET call == pending[idx]
         parsed == JSONParse(call.arguments)
     IN IF printToolCallThrows(parsed) THEN Crash(call, FALSE, U, disk, FALSE)
        ELSE IF NeedsConfirmation(call.name)
        THEN /\ pc' = "confirm"
             /\ UNCHANGED <<messages, userMessage, steps, pending, idx, disk, sent, outcome,
                            ev, invoked, handlerCalls, afterReset, denied, script, spent,
                            turns, probe>>
        ELSE IF ~parsed.ok
        THEN Push(call, "parse_error", FALSE, U, ArgsErrorResult(parsed.err), disk, FALSE)
        ELSE \E env \in ExecOutcomes : Dispatch(call, parsed.val, FALSE, U, env)

\* one iteration of the for loop, up to its first await
ToolStep ==
  /\ pc = "tool"
  /\ LET call == pending[idx]
         parsed == JSONParse(call.arguments)
     IN IF printToolCallThrows(parsed) THEN Crash(call, FALSE, U, disk, FALSE)
        ELSE IF ~parsed.ok
        THEN Push(call, "parse_error", FALSE, U, ArgsErrorResult(parsed.err), disk, FALSE)
        ELSE IF NeedsConfirmation(call.name)
        THEN /\ pc' = "confirm"
             /\ UNCHANGED <<messages, userMessage, steps, pending, idx, disk, sent, outcome,
                            ev, invoked, handlerCalls, afterReset, denied, script, spent,
                            turns, probe>>
        ELSE \E env \in ExecOutcomes : Dispatch(call, parsed.val, FALSE, U, env)

\* a gate that runs the tool before it looks at the answer
ConfirmAfterRun(answer) ==
  /\ pc = "confirm"
  /\ \E env \in ExecOutcomes :
       LET call == pending[idx]
           r == executeTool(call.name, JSONParse(call.arguments).val, disk, env)
       IN IF userConfirmsTool(answer)
          THEN Dispatch(call, JSONParse(call.arguments).val, TRUE, answer, env)
          ELSE Push(call, "denied", TRUE, answer, "denied by user", r.disk, r.handled)

\* the operator answers the confirmation prompt
Confirm(answer) ==
  /\ pc = "confirm"
  /\ LET call == pending[idx]
         args == JSONParse(call.arguments).val
     IN IF userConfirmsTool(answer)
        THEN \E env \in ExecOutcomes : Dispatch(call, args, TRUE, answer, env)
        ELSE Push(call, "denied", TRUE, answer, "denied by user", disk, FALSE)

\* an interrupt that only abandons the turn
InterruptToPrompt ==
  /\ pc \in {"loop", "llm", "tool", "confirm"}
  /\ pc' = "prompt"
  /\ sent' = <<>>
  /\ UNCHANGED <<messages, userMessage, steps, pending, idx, disk, outcome, ev,
                 invoked, handlerCalls, afterReset, denied, script, spent, turns, probe>>

\* rl.on('SIGINT') and rl.on('close'): process.exit(0)
Interrupt ==
  /\ pc \in {"prompt", "loop", "llm", "tool", "confirm"}
  /\ pc' = "exited"
  /\ UNCHANGED <<messages, userMessage, steps, pending, idx, disk, sent, outcome, ev,
                 invoked, handlerCalls, afterReset, denied, script, spent, turns, probe>>

Next ==
  \/ \E line \in Inputs : UserInput(line)
  \/ SafetyStop
  \/ Invoke
  \/ LLMError
  \/ Reply
  \/ ToolStep
  \/ \E answer \in Answers : Confirm(answer)
  \/ Interrupt

Spec == Init /\ [][Next]_vars

\* the steps of a turn that wait for the model, the operator's answer or a
\* tool handler, or that only run code of runAgentLoop
TurnStep ==
  \/ SafetyStop
  \/ Invoke
  \/ LLMError
  \/ Reply
  \/ ToolStep
  \/ \E answer \in Answers : Confirm(answer)

\* the program as constructed, the session being followed for one turn
InitLive ==
  /\ messages = initMessages
  /\ pc = "prompt"
  /\ userMessage = U
  /\ steps = 0
  /\ pending = <<>>
  /\ idx = 0
  /\ disk = File("old")
  /\ sent = <<>>
  /\ outcome = "none"
  /\ ev = NoEvent
  /\ invoked = 0
  /\ handlerCalls = 0
  /\ afterReset = FALSE
  /\ denied = NoDenial
  /\ script \in {"free", "runaway"}
  /\ spent = 0
  /\ turns = MaxTurns - 1
  /\ probe = NoProbe

\* every model invocation, confirmation prompt and tool handler returns in
\* the end; nothing is assumed of the operator's input and interrupts
SpecLive == InitLive /\ [][Next]_vars /\ WF_vars(TurnStep)

(***************************************************************************)
(* executeTool applied directly to every name and argument value.          *)
(***************************************************************************)
ProbeDisks == {NoFile, File("old"), File("old old"), File("a\nold\n")}

InitExec ==
  /\ messages = <<>>
  /\ pc = "exec"
  /\ userMessage = U
  /\ steps = 0
  /\ pending = <<>>
  /\ idx = 0
  /\ disk \in ProbeDisks
  /\ sent = <<>>
  /\ outcome = "none"
  /\ ev = NoEvent
  /\ invoked = 0
  /\ handlerCalls = 0
  /\ afterReset = FALSE
  /\ denied = NoDenial
  /\ script = "free"
  /\ spent = 0
  /\ turns = 0
  /\ probe \in {[NoProbe EXCEPT !.name = n, !.args = a] :
                  n \in AllToolNames, a \in AllArgTexts \ {BadJSONText}}

ExecApply ==
  /\ pc = "exec"
  /\ ~probe.done
  /\ \E env \in ExecOutcomes :
       LET r == executeTool(probe.name, JSONParse(probe.args).val, disk, env) IN
       /\ probe' = [probe EXCEPT !.done = TRUE, !.threw = r.threw, !.val = r.val,
                                 !.handled = r.handled, !.before = disk]
       /\ disk' = r.disk
  /\ UNCHANGED <<messages, pc, userMessage, steps, pending, idx, sent, outcome, ev, invoked,
                 handlerCalls, afterReset, denied, script, spent, turns>>

NextExec == ExecApply

SpecExec == InitExec /\ [][NextExec]_vars

(***************************************************************************)
(* The handlers edit, read and bash applied directly to bounded inputs.    *)
(***************************************************************************)
\* longest file text tried
MaxTextLen == 3

\* the strings over an alphabet of at most n characters
RECURSIVE StringsUpTo(_, _)
StringsUpTo(alphabet, n) ==
  IF n = 0 THEN {""}
  ELSE StringsUpTo(alphabet, n - 1)
       \cup {s \o c : s \in StringsUpTo(alphabet, n - 1), c \in alphabet}

EditTexts == StringsUpTo({"a", "b"}, MaxTextLen)
EditOlds == StringsUpTo({"a", "b"}, MaxTextLen - 1)
EditNews == {"", "a", "b", "ab", "c", "$&", "$$", "c$'"}

\* the state outside the probed handler
ProbeIdle ==
  /\ messages = <<>>
  /\ userMessage = U
  /\ steps = 0
  /\ pending = <<>>
  /\ idx = 0
  /\ sent = <<>>
  /\ outcome = "none"
  /\ ev = NoEvent
  /\ invoked = 0
  /\ handlerCalls = 0
  /\ afterReset = FALSE
  /\ denied = NoDenial
  /\ script = "free"
  /\ spent = 0
  /\ turns = 0

InitEdit ==
  /\ ProbeIdle
  /\ pc = "edit"
  /\ disk \in {File(t) : t \in EditTexts}
  /\ probe \in {[NoProbe EXCEPT !.name = "edit",
                   !.args = [NoProps("object") EXCEPT !.path = FilePath, !.old = o,
                                                      !.new = n, !.all = a]] :
                  o \in EditOlds, n \in EditNews, a \in BOOLEAN}

\* await handler(args) for one handler call, the result kept in probe
Applied(r) ==
  /\ probe' = [probe EXCEPT !.done = TRUE, !.threw = r.threw, !.val = r.val,
                            !.handled = TRUE, !.before = disk]
  /\ disk' = r.disk
  /\ UNCHANGED <<messages, pc, userMessage, steps, pending, idx, sent, outcome, ev, invoked,
                 handlerCalls, afterReset, denied, script, spent, turns>>

EditApply ==
  /\ pc = "edit"
  /\ ~probe.done
  /\ Applied(edit(probe.args, disk))

NextEdit == EditApply

SpecEdit == InitEdit /\ [][NextEdit]_vars

\* read: file texts over a letter and the line break, offsets and limits up
\* to the text length; limit = -1 stands for an absent limit
ReadTexts == StringsUpTo({"a", "\n"}, MaxTextLen)
ReadLimits == -1..MaxTextLen

\* the limit property as the handler sees it: undefined and 0 are both falsy
LimitArg(limit) == IF limit = -1 THEN 0 ELSE limit

InitRead ==
  /\ ProbeIdle
  /\ pc = "read"
  /\ disk \in {File(t) : t \in ReadTexts}
  /\ probe \in {[name |-> "read", limit |-> l,
                 args |-> [NoProps("object") EXCEPT !.path = FilePath, !.offset = o,
                                                    !.limit = LimitArg(l)],
                 done |-> FALSE, threw |-> FALSE, val |-> Undef, handled |-> FALSE,
                 before |-> NoFile] :
                  o \in 0..MaxTextLen, l \in ReadLimits}

ReadApply ==
  /\ pc = "read"
  /\ ~probe.done
  /\ Applied(read(probe.args, disk))

NextRead == ReadApply

SpecRead == InitRead /\ [][NextRead]_vars

\* bash: the timeout handed to exec, in seconds
BASH_TIMEOUT_S == 30

\* what a command would do if left alone: its running time in seconds, its
\* exit status and its output
BashRuns ==
  [duration : {0, 1, 29, 31, 60}, exit : {0, 1}, stdout : {"", " out\n", " \n"},
   stderr : {"", "err\n"}]

\* exec(cmd, { timeout }): a child that runs longer than the timeout is
\* killed and the error carries killed = true
ExecWithTimeout(run) ==
  [kind |-> IF run.duration > BASH_TIMEOUT_S THEN "killed"
            ELSE IF run.exit = 0 THEN "exit0" ELSE "nonzero",
   stdout |-> run.stdout, stderr |-> run.stderr]

InitBash ==
  /\ ProbeIdle
  /\ pc = "bash"
  /\ disk = File("old")
  /\ probe \in {[name |-> "bash", run |-> r,
                 args |-> [NoProps("object") EXCEPT !.cmd = c],
                 done |-> FALSE, threw |-> FALSE, val |-> Undef, handled |-> FALSE,
                 before |-> NoFile] :
                  r \in BashRuns, c \in {"rm f", "sleep 60; true"}}

BashApply ==
  /\ pc = "bash"
  /\ ~probe.done
  /\ Applied(bash(probe.args, disk, ExecWithTimeout(probe.run)))

NextBash == BashApply

SpecBash == InitBash /\ [][NextBash]_vars

(***************************************************************************)
(* Properties.                                                             *)
(***************************************************************************)
IsAssistantAt(h, a) == a \in 1..Len(h) /\ h[a].role = "assistant"

\* the last position of the run of tool messages that follows position a
RECURSIVE BlockEnd(_, _)
BlockEnd(h, a) ==
  IF a < Len(h) /\ h[a + 1].role = "tool" THEN BlockEnd(h, a + 1) ELSE a

\* the tool messages that answer the call id of the assistant message at a
AnswersTo(h, a, id) == {k \in (a + 1)..BlockEnd(h, a) : h[k].tool_call_id = id}

\* the nearest assistant message before position k; 0 if there is none
RECURSIVE NearestAssistant(_, _)
NearestAssistant(h, k) ==
  IF k <= 1 THEN 0
  ELSE IF h[k - 1].role = "assistant" THEN k - 1
  ELSE NearestAssistant(h, k - 1)

AllCallsAnswered(h) ==
  \A a \in 1..Len(h) :
    IsAssistantAt(h, a) =>
      \A i \in 1..Len(h[a].tool_calls.list) :
        Cardinality(AnswersTo(h, a, h[a].tool_calls.list[i].id)) = 1

\* C1: whenever the model is invoked, every tool call of every assistant
\* message of the history sent has exactly one tool message with its id
\* after that assistant message.
C1_EveryCallAnsweredWhenInvoked == pc = "llm" => AllCallsAnswered(sent)

\* C2: every tool message answers a call of the nearest assistant message
\* before it, with nothing but tool messages in between, and no call of an
\* assistant message is answered more than once.
C2_ToolMessagesMatchCalls ==
  /\ \A k \in 1..Len(messages) :
       messages[k].role = "tool" =>
         LET a == NearestAssistant(messages, k) IN
         /\ a # 0
         /\ \A j \in (a + 1)..k : messages[j].role = "tool"
         /\ \E i \in 1..Len(messages[a].tool_calls.list) :
              messages[a].tool_calls.list[i].id = messages[k].tool_call_id
  /\ \A a \in 1..Len(messages) :
       IsAssistantAt(messages, a) =>
         \A i \in 1..Len(messages[a].tool_calls.list) :
           Cardinality(AnswersTo(messages, a, messages[a].tool_calls.list[i].id)) <= 1

\* a reply with two tool calls, each answered by its own tool message
C2_Witness ==
  \E a \in 1..Len(messages) :
    /\ IsAssistantAt(messages, a)
    /\ Len(messages[a].tool_calls.list) = 2
    /\ Cardinality(AnswersTo(messages, a, "call_1")) = 1
    /\ Cardinality(AnswersTo(messages, a, "call_2")) = 1
    /\ BlockEnd(messages, a) = a + 2

\* C3: executeTool never throws and resolves to a string, for every tool
\* name and every parsed argument value.
C3_ExecuteToolReturnsString ==
  probe.done => ~probe.threw /\ probe.val.t = "string"

Malformed(text) == ~JSONParse(text).ok \/ JSONParse(text).val.t # "object"

\* C4: a tool call with malformed arguments does not abort the turn: its
\* step appends a tool message with the call's id and an "error: " content
\* and processing goes on with the next call or the next invocation.
C4_MalformedArgsRecovered ==
  [][(pc = "tool" /\ pc' # "exited" /\ Malformed(pending[idx].arguments)) =>
       /\ Len(messages') = Len(messages) + 1
       /\ messages'[Len(messages')].role = "tool"
       /\ messages'[Len(messages')].tool_call_id = pending[idx].id
       /\ StartsWith(messages'[Len(messages')].content, "error: ")
       /\ pc' \in {"tool", "loop"}
       /\ outcome' = outcome]_vars

\* C5: a denial invokes no handler and changes no file, appends the tool
\* message "denied by user" with the call's id, and that message is in the
\* history sent at the following model invocation of the conversation.
C5_DenialShortCircuits ==
  [][/\ (pc = "confirm" /\ pc' \in {"tool", "loop"} /\ ev'.kind = "denied") =>
          /\ disk' = disk
          /\ handlerCalls' = handlerCalls
          /\ messages' = Append(messages, ToolMsg(pending[idx].id, "denied by user"))
     /\ (pc = "loop" /\ pc' = "llm" /\ denied.at # 0) =>
          /\ denied.at <= Len(sent')
          /\ sent'[denied.at] = ToolMsg(denied.id, "denied by user")]_vars

\* a denied write, its file untouched, its denial in the request in flight
C5_Witness ==
  /\ pc = "llm"
  /\ denied.at # 0
  /\ denied.at <= Len(sent)
  /\ sent[denied.at].content = "denied by user"
  /\ ev.kind = "denied" /\ ev.name = "write"
  /\ disk = File("old")

\* C6: a dangerous tool's handler runs only after the operator was prompted
\* for that call and answered y or Y; any other answer denies the call; a
\* tool outside the dangerous set is dispatched without a prompt.
C6_ConfirmationGate ==
  /\ (ev.handled /\ ev.name \in {"write", "edit", "bash"}) =>
       ev.prompted /\ ev.answer \in {"y", "Y"}
  /\ (ev.prompted /\ ev.answer \notin {"y", "Y"}) => ev.kind = "denied" /\ ~ev.handled
  /\ (ev.kind \in {"dispatched", "crashed"} /\ ev.name \notin {"write", "edit", "bash"}) =>
       ~ev.prompted
  /\ pc = "confirm" => pending[idx].name \in {"write", "edit", "bash"}

\* an approved write that reached the disk
C6_Witness ==
  /\ ev.kind = "dispatched" /\ ev.name = "write" /\ ev.handled
  /\ ev.prompted /\ ev.answer = "Y"
  /\ disk = File("new")

\* C7: a turn invokes the model at most 10 times; after 10 replies that all
\* requested tools the loop stops with the safety-limit report; the report is
\* made only there, in a turn that has reported nothing else.
C7_IterationCap ==
  [][/\ invoked' <= 10
     /\ (pc = "loop" /\ invoked = 10 /\ pc' # "exited") =>
          outcome' = "safety" /\ pc' = "prompt" /\ invoked' = 10
     /\ (outcome' = "safety" /\ outcome # "safety") =>
          pc = "loop" /\ invoked = 10 /\ outcome = "none"]_vars

\* the safety-limit stop of a model that asked for a tool in every reply
C7_Witness ==
  /\ outcome = "safety" /\ pc = "prompt" /\ invoked = 10
  /\ Cardinality({k \in 1..Len(messages) : messages[k].role = "tool"}) >= 10

\* C8: the first request after a reset holds exactly the seed system message
\* followed by the new user message.
C8_ResetLeavesNoResidue ==
  (pc = "llm" /\ afterReset) =>
    sent = <<SystemMsg(SYSTEM_PROMPT), UserMsg(userMessage)>>

\* the first request after a reset that followed a turn with tool calls
C8_Witness ==
  /\ pc = "llm" /\ afterReset
  /\ turns = 2 /\ spent > 0
  /\ Len(sent) = 2

\* C9: for every name that is not a registered tool, executeTool returns
\* exactly error: unknown tool "<name>", calls no handler and does not throw.
C9_UnknownToolError ==
  (probe.done /\ probe.name \notin {"read", "write", "edit", "bash", "glob", "grep"}) =>
    /\ ~probe.threw
    /\ ~probe.handled
    /\ probe.val = Str("error: unknown tool \"" \o probe.name \o "\"")

\* C10: a failed model invocation ends the turn at once, with the error
\* reported and nothing else changed; the program is back at the prompt and
\* the next input starts a turn as usual.
C10_TransportErrorEndsTurn ==
  [][/\ (pc = "llm" /\ outcome' = "error") =>
          /\ pc' = "prompt"
          /\ messages' = messages /\ disk' = disk
          /\ handlerCalls' = handlerCalls /\ invoked' = invoked
     /\ outcome = "error" => pc \in {"prompt", "exited"}
     /\ (outcome = "error" /\ pc = "prompt" /\ turns' = turns + 1) =>
          /\ pc' = "loop"
          /\ outcome' = "none"
          /\ messages' = Append(messages, UserMsg("hello"))]_vars

\* a turn that completed after the turn before it failed at its first
\* invocation (its user message is followed directly by the next one)
C10_Witness ==
  /\ outcome = "done" /\ pc = "prompt"
  /\ \E k \in 1..(Len(messages) - 1) :
       messages[k].role = "user" /\ messages[k + 1].role = "user"

\* the program is inside runAgentLoop
InFlight == pc \in {"loop", "llm", "tool", "confirm"}

\* C11 (as claimed): a turn abandoned in flight, with nothing reported for
\* it, leaves the program at the input prompt.
C11_InterruptReturnsToPrompt ==
  [][(InFlight /\ ~InFlight' /\ outcome' = "none") => pc' = "prompt"]_vars

\* C11 (amended): Ctrl+C in flight abandons the turn by ending the process:
\* history and files stay as they were and no step follows.
C11_InterruptEndsProcess ==
  [][/\ (InFlight /\ ~InFlight' /\ outcome' = "none") =>
          /\ pc' = "exited"
          /\ messages' = messages /\ disk' = disk /\ handlerCalls' = handlerCalls
     /\ pc # "exited"]_vars

\* the process ended while a request to the model was in flight
C11_Witness == pc = "exited" /\ sent # <<>> /\ outcome = "none" /\ turns >= 1

\* the positions at which pat occurs in text, overlapping ones included
Occurrences(text, pat) ==
  {i \in 1..(Len(text) + 1) :
     i + Len(pat) - 1 <= Len(text) /\ SubSeq(text, i, i + Len(pat) - 1) = pat}

IsErrorResult(val) == val.t = "string" /\ StartsWith(val.v, "error: ")

\* C12: edit returns an error and leaves the file as it was when old occurs
\* nowhere, or at N > 1 positions without all; the second message reports N.
C12_EditRejectsAbsentOrAmbiguous ==
  probe.done =>
    LET text == probe.before.text
        n == Cardinality(Occurrences(text, probe.args.old))
    IN /\ n = 0 => IsErrorResult(probe.val) /\ disk = probe.before
       /\ (n > 1 /\ ~probe.args.all) =>
            /\ disk = probe.before
            /\ probe.val = Str("error: old string appears " \o ToString(n)
                               \o " times, must be unique (or use all=true)")

Chars(s) == {SubSeq(s, i, i) : i \in 1..Len(s)}

\* the occurrences a left-to-right scan without overlap meets
RECURSIVE ScanCount(_, _, _)
ScanCount(text, pat, from) ==
  IF from + Len(pat) - 1 > Len(text) THEN 0
  ELSE IF SubSeq(text, from, from + Len(pat) - 1) = pat
       THEN 1 + ScanCount(text, pat, from + Len(pat))
       ELSE ScanCount(text, pat, from + 1)

C14_EditReplacesSpanLiterally ==
  (probe.done /\ Cardinality(Occurrences(probe.before.text, probe.args.old)) = 1) =>
    LET text == probe.before.text
        i == CHOOSE k \in Occurrences(text, probe.args.old) : TRUE
    IN /\ probe.val = Str("ok")
       /\ disk.text = SubSeq(text, 1, i - 1) \o probe.args.new
                        \o SubSeq(text, i + Len(probe.args.old), Len(text))

\* the lines of a text: the pieces between its line breaks
LineBreaks(text) == {i \in 1..Len(text) : SubSeq(text, i, i) = "\n"}
LineCount(text) == Cardinality(LineBreaks(text)) + 1
\* the zero-based line k of the text
LineAt(text, k) ==
  LET starts == {0} \cup LineBreaks(text)
      from == CHOOSE i \in starts : Cardinality({j \in starts : j < i}) = k
      to == IF \E j \in LineBreaks(text) : j > from
            THEN (CHOOSE j \in LineBreaks(text) :
                    j > from /\ \A j2 \in LineBreaks(text) : j2 > from => j <= j2) - 1
            ELSE Len(text)
  IN SubSeq(text, from + 1, to)

\* C15: read returns exactly the existing lines k with offset <= k <
\* offset + limit (every line from offset on when limit is absent), each
\* prefixed with k + 1 padded to four columns, in order.
C15_ReadReturnsNumberedSlice ==
  probe.done =>
    LET text == probe.before.text
        from == probe.args.offset
        to == IF probe.limit = -1 THEN LineCount(text)
              ELSE IF from + probe.limit < LineCount(text) THEN from + probe.limit
              ELSE LineCount(text)
        expected == [j \in 1..(IF to > from THEN to - from ELSE 0) |->
                       PadStart(ToString(from + j), 4) \o "| " \o LineAt(text, from + j - 1)]
    IN probe.val = Str(Join(expected, "\n"))

\* C16 (as claimed): a command that runs past the 30 second timeout yields
\* "(timed out after 30s)", and a command that completes without any output
\* yields "(empty)".
C16_BashTimeoutAndEmpty ==
  probe.done =>
    /\ probe.run.duration > 30 => probe.val = Str("(timed out after 30s)")
    /\ (probe.run.duration <= 30 /\ probe.run.stdout = "" /\ probe.run.stderr = "") =>
         probe.val = Str("(empty)")

\* C16 (amended): as above, the "(empty)" sentinel being returned when the
\* command completes with exit status 0 and no output.
C16_BashTimeoutAndEmptyOnSuccess ==
  probe.done =>
    /\ probe.run.duration > 30 => probe.val = Str("(timed out after 30s)")
    /\ (probe.run.duration <= 30 /\ probe.run.exit = 0
        /\ probe.run.stdout = "" /\ probe.run.stderr = "") =>
         probe.val = Str("(empty)")

\* a command cut off by the timeout, answered with the sentinel
C16_Witness ==
  /\ probe.done /\ probe.run.duration = 31
  /\ probe.val = Str("(timed out after 30s)")

\* the assistant message whose calls are being worked through sits idx - 1
\* tool messages before the end of the history
ReplyAt == Len(messages) - (idx - 1)

ReplyInHistory ==
  /\ ReplyAt >= 1
  /\ messages[ReplyAt].role = "assistant"
  /\ messages[ReplyAt].tool_calls = Calls(pending)

\* the tool messages that follow the assistant message at p, up to the next
\* message that is not one
RECURSIVE ToolBlock(_, _)
ToolBlock(history, p) ==
  IF p + 1 > Len(history) \/ history[p + 1].role # "tool" THEN <<>>
  ELSE <<history[p + 1]>> \o ToolBlock(history, p + 1)

\* C17: the calls of a reply are taken one at a time in the order of
\* tool_calls: while call idx is at its confirmation or about to be
\* dispatched, the history ends with the reply followed by exactly the tool
\* messages of calls 1..idx-1 in order, and in the whole history the j-th
\* tool message after a reply carries the id of its j-th call.
C17_CallsProcessedInOrder ==
  /\ pc \in {"tool", "confirm"} =>
       /\ idx \in 1..Len(pending)
       /\ ReplyInHistory
       /\ \A j \in 1..(idx - 1) :
            /\ messages[ReplyAt + j].role = "tool"
            /\ messages[ReplyAt + j].tool_call_id = pending[j].id
  /\ \A p \in 1..Len(messages) :
       (messages[p].role = "assistant" /\ messages[p].tool_calls.present) =>
         LET block == ToolBlock(messages, p)
             calls == messages[p].tool_calls.list
         IN /\ Len(block) <= Len(calls)
            /\ \A j \in 1..Len(block) : block[j].tool_call_id = calls[j].id

\* the second call of a reply waits at its confirmation, the first one
\* having run its handler and its result being the last message
C17_Witness ==
  /\ pc = "confirm" /\ idx = 2
  /\ ev.kind = "dispatched" /\ ev.handled /\ ev.id = pending[1].id
  /\ messages[Len(messages)].role = "tool"
  /\ messages[Len(messages)].tool_call_id = pending[1].id

\* C18: the step that takes up a reply's tool calls appends the reply with
\* its tool calls and does nothing else to the world; every later step of
\* the for loop, a crash of a dispatch or of the call's display included,
\* finds the reply in the history and leaves it there.
C18_ReplyRecordedBeforeTools ==
  [][/\ (pc = "llm" /\ pc' = "tool") =>
          /\ Len(messages') = Len(messages) + 1
          /\ messages'[Len(messages')].role = "assistant"
          /\ messages'[Len(messages')].tool_calls = Calls(pending')
          /\ SubSeq(messages', 1, Len(messages)) = messages
          /\ disk' = disk /\ handlerCalls' = handlerCalls /\ ev' = ev
     /\ (pc \in {"tool", "confirm"} /\ pc' # "exited") =>
          /\ ReplyInHistory
          /\ SubSeq(messages', 1, Len(messages)) = messages
     /\ (pc \in {"tool", "confirm"} /\ outcome' = "error") =>
          /\ messages' = messages
          /\ messages'[Len(messages') - (idx - 1)].tool_calls = Calls(pending)]_vars

\* a handler has thrown on the first call of a reply, and the reply is the
\* last message of the history
C18_Witness ==
  /\ pc = "prompt" /\ outcome = "error" /\ ev.kind = "crashed" /\ ev.handled
  /\ messages[Len(messages)].role = "assistant"
  /\ messages[Len(messages)].tool_calls.present
  /\ messages[Len(messages)].tool_calls.list # <<>>

\* C19: a reply with finish_reason "stop", or without tool calls (absent or
\* an empty list), ends the turn: the loop is left for the prompt with no
\* dispatch and no further invocation.
C19_NoToolCallsStopsTurn ==
  [][\A reply \in FreeReplies(MaxSpend) \cup RunawayReplies :
       (/\ LLMReply(reply)
        /\ \/ reply.finish_reason = "stop"
           \/ ~reply.tool_calls.present
           \/ reply.tool_calls.list = <<>>) =>
         (pc' = "prompt" /\ outcome' = "done")]_vars

IsPrefix(s, t) == Len(s) <= Len(t) /\ SubSeq(t, 1, Len(s)) = s

\* a step of main that takes /clear or /new
IsReset == pc = "prompt" /\ pc' = "prompt" /\ outcome' = "cleared" /\ afterReset'

\* C20: every step other than a reset leaves the old history as a prefix of
\* the new one, and a reset leaves the empty history or a single system
\* message.
C20_HistoryAppendOnly ==
  [][/\ ~IsReset => IsPrefix(messages, messages')
     /\ IsReset => \/ messages' = <<>>
                   \/ messages' = <<SystemMsg(SYSTEM_PROMPT)>>]_vars

\* a reset that has cut down a history grown by a turn with a tool result
C20_Witness ==
  /\ pc = "prompt" /\ afterReset /\ outcome = "cleared"
  /\ turns >= 1 /\ ev.kind = "dispatched"
  /\ Len(messages) <= 1

\* C21: a turn in flight ends: runAgentLoop returns to main's prompt with
\* the turn completed by the model, stopped by the iteration cap or ended by
\* a propagated error, unless the operator's interrupt ends the process
\* first.
C21_TurnTerminates ==
  InFlight ~> \/ pc = "prompt" /\ outcome \in {"done", "safety", "error"}
              \/ pc = "exited"

\* the turn has run into the cap and the prompt is back
C21_Witness ==
  /\ pc = "prompt" /\ outcome = "safety" /\ steps = MAX_AGENT_LOOPS + 1
  /\ turns = MaxTurns /\ script = "runaway"

\* JSON.parse throws on the arguments text
Unparsable(text) == ~JSONParse(text).ok

\* C22: a call whose arguments text does not parse is never put before the
\* operator and never reaches a handler, dangerous tool or not: its step
\* appends the error tool message and changes nothing else of the world.
C22_ParseFailureSkipsGateAndHandler ==
  [][/\ pc' = "confirm" => ~Unparsable(pending'[idx'].arguments)
     /\ (pc = "tool" /\ pc' # "exited" /\ Unparsable(pending[idx].arguments)) =>
          /\ pc' \in {"tool", "loop"}
          /\ messages' = Append(messages,
               ToolMsg(pending[idx].id,
                       ArgsErrorResult(JSONParse(pending[idx].arguments).err)))
          /\ handlerCalls' = handlerCalls
          /\ disk' = disk
          /\ ev'.kind = "parse_error" /\ ~ev'.prompted /\ ~ev'.handled
          /\ outcome' = outcome /\ denied' = denied /\ steps' = steps]_vars

\* a write call with unparsable arguments has been answered with the error
\* message, no handler having run and the file being as it was
C22_Witness ==
  /\ ev.kind = "parse_error" /\ ev.name = "write" /\ ~ev.prompted
  /\ handlerCalls = 0 /\ disk = File("old")
  /\ messages[Len(messages)].role = "tool"
  /\ StartsWith(messages[Len(messages)].content, "error: invalid tool arguments JSON (")

\* C23: a failed model invocation leaves the history as it was, user message
\* of the aborted turn included; from then on, short of a reset, the only
\* change is the next turn's user message appended behind it, and the first
\* invocation of that turn sends the whole history in order.
C23_FailedInvocationKeepsHistory ==
  [][/\ (pc = "llm" /\ outcome' = "error") =>
          /\ messages' = messages
          /\ pc' = "prompt"
          /\ \E k \in 1..Len(messages) : messages[k] = UserMsg(userMessage)
     /\ (pc = "prompt" /\ outcome = "error" /\ outcome' # "cleared") =>
          \/ messages' = messages
          \/ pc' = "loop" /\ messages' = Append(messages, UserMsg(userMessage'))
     /\ (pc = "loop" /\ pc' = "llm") => sent' = messages]_vars

\* the first turn has failed at its second invocation, after a reply and its
\* tool result; the second turn's first request carries all of it in order
C23_Witness ==
  /\ pc = "llm" /\ turns = 2 /\ invoked = 1 /\ ~afterReset
  /\ sent = messages /\ Len(sent) = 5
  /\ sent[2].role = "user" /\ sent[3].role = "assistant"
  /\ sent[4].role = "tool" /\ sent[5] = UserMsg(userMessage)

\* position of the last assistant message of the history, 0 if there is none
LastReplyAt(history) ==
  LET at == {k \in 1..Len(history) : history[k].role = "assistant"}
  IN IF at = {} THEN 0 ELSE CHOOSE k \in at : \A m \in at : m <= k

\* position of the last user message of the history, 0 if there is none
LastUserAt(history) ==
  LET at == {k \in 1..Len(history) : history[k].role = "user"}
  IN IF at = {} THEN 0 ELSE CHOOSE k \in at : \A m \in at : m <= k

\* C24: at the stop by the iteration cap the turn has had MAX_AGENT_LOOPS
\* replies, and the history ends with the last of them followed by one tool
\* message per tool call, in order; the last call went past the operator if
\* its tool is dangerous; nothing is left to process, no request is in
\* flight, and the stop neither changes the history nor invokes the model.
C24_CapStopsAfterToolResults ==
  [][(pc = "loop" /\ outcome' = "safety") =>
       LET p == LastReplyAt(messages)
           calls == messages[p].tool_calls.list
       IN /\ p > LastUserAt(messages)
          /\ Cardinality({k \in LastUserAt(messages)..Len(messages) :
                            messages[k].role = "assistant"}) = MAX_AGENT_LOOPS
          /\ messages[p].tool_calls.present
          /\ Len(messages) = p + Len(calls)
          /\ \A j \in 1..Len(calls) :
               /\ messages[p + j].role = "tool"
               /\ messages[p + j].tool_call_id = calls[j].id
          /\ calls # <<>> =>
               /\ ev.id = calls[Len(calls)].id
               /\ ev.kind \in {"dispatched", "denied", "parse_error"}
               /\ ev.name \in dangerousTools => (ev.kind = "parse_error" \/ ev.prompted)
          /\ pending = <<>> /\ sent = <<>>
          /\ messages' = messages /\ sent' = <<>>
          /\ invoked' = MAX_AGENT_LOOPS /\ pc' = "prompt"]_vars

\* the cap has stopped a turn whose tenth reply asked for a read and a
\* write; the write was confirmed and run, and both results end the history
C24_Witness ==
  /\ pc = "prompt" /\ outcome = "safety" /\ invoked = MAX_AGENT_LOOPS
  /\ ev.kind = "dispatched" /\ ev.name = "write" /\ ev.prompted /\ ev.handled
  /\ Len(messages) >= 3
  /\ messages[Len(messages) - 2].role = "assistant"
  /\ messages[Len(messages) - 1].tool_call_id = "call_1"
  /\ messages[Len(messages)].tool_call_id = "call_2"

====
